---- MODULE Spec2Model ----
(***************************************************************************)
(* Model of src/orchestrator/coordinator.py: AgentTask and                 *)
(* AgentCoordinator (agent registry, task table, task counter), call by    *)
(* call and statement by statement; of src/orchestrator/workspace.py:      *)
(* WorkspaceManager; and of src/tools/github_tools.py: GitHubClient.       *)
(*                                                                         *)
(* Python dicts are insertion ordered, so a dict is a sequence of          *)
(* <<key, value>> pairs with pairwise distinct keys.  An f-string is the   *)
(* tuple of its literal parts and formatted values; the task identifier is *)
(* formatted digit by digit.                                               *)
(***************************************************************************)
EXTENDS Integers, Sequences, FiniteSets, TLC

\* ---------------------------------------------------------------- bounds
MaxCalls     == 4  \* coordinator calls in one behaviour of Spec
MaxSteps     == 2  \* longest workflow_steps list in Spec
MaxFlowSteps == 3  \* longest workflow_steps list in FlowSpec
MaxQueryCalls == 4 \* changing calls in one behaviour of QuerySpec
MaxStepSteps == 2  \* longest workflow_steps list in StepSpec

\* ---------------------------------------------------------------- inputs
Names    == {"a", "b"}            \* agent names callers use
Handles  == {"h1", "h2"}          \* agent instances (opaque executors)
Descs    == {"x"}                 \* task descriptions in Spec
FlowDescs == {"x", "y"}           \* task descriptions in FlowSpec
QueryNames == {"", "a"}           \* agent names in QuerySpec
TokenArgs == {<<>>, <<"">>, <<"t">>}  \* token argument: None or a string
RepoArgs  == {<<>>, <<"o/r">>}        \* repo_name argument
Titles    == {"", "bug"}              \* issue titles
WorkspaceNames == {"a", "A", "b"}     \* agent names given to the workspace
Filenames == {<<"f">>, <<"..", "b", "f">>}  \* relative paths, by component
Contents  == {"1", "2"}               \* file contents
Callers   == {"t1", "t2"}             \* threads calling the coordinator
Environs  ==                          \* os.environ
    {<<>>, <<<<"GITHUB_TOKEN", "e">>>>, <<<<"GITHUB_REPO", "o/e">>>>,
     <<<<"GITHUB_TOKEN", "e">>, <<"GITHUB_REPO", "o/e">>>>}
Messages == {"boom"}              \* str(e) of an exception raised by a handle

\* ------------------------------------------------------------ Python dict
None == <<>>

RECURSIVE DictIndex(_, _)
\* position of key k in dict d, 0 when absent
DictIndex(d, k) ==
    IF d = <<>> THEN 0
    ELSE IF d[Len(d)][1] = k THEN Len(d)
    ELSE DictIndex(SubSeq(d, 1, Len(d) - 1), k)

DictHas(d, k) == DictIndex(d, k) # 0

DictGet(d, k) == d[DictIndex(d, k)][2]

\* d[k] = v : overwrite in place, or append a new key
DictSet(d, k, v) ==
    IF DictHas(d, k)
    THEN [d EXCEPT ![DictIndex(d, k)] = <<k, v>>]
    ELSE Append(d, <<k, v>>)

\* del d[k]
DictDel(d, k) ==
    LET i == DictIndex(d, k)
    IN  SubSeq(d, 1, i - 1) \o SubSeq(d, i + 1, Len(d))

DictKeys(d) == [i \in 1..Len(d) |-> d[i][1]]

DictValues(d) == [i \in 1..Len(d) |-> d[i][2]]

SeqToSet(s) == {s[i] : i \in 1..Len(s)}

\* ------------------------------------------------------------ TaskStatus
PENDING     == "pending"
IN_PROGRESS == "in_progress"
COMPLETED   == "completed"
FAILED      == "failed"

TaskStatus == {PENDING, IN_PROGRESS, COMPLETED, FAILED}

\* -------------------------------------------------------------- AgentTask
AgentTask(task_id, agent_name, description) ==
    [task_id |-> task_id, agent_name |-> agent_name,
     description |-> description, status |-> PENDING,
     result |-> None, error |-> None]

mark_in_progress(task) == [task EXCEPT !.status = IN_PROGRESS]

\* mark_completed storing the result and leaving the status as it is
mark_completed_result_only(task, result) == [task EXCEPT !.result = result]

mark_completed(task, result) ==
    [task EXCEPT !.status = COMPLETED, !.result = result]

\* mark_failed leaving a Completed task Completed
mark_failed_unless_completed(task, error) ==
    IF task.status = COMPLETED THEN [task EXCEPT !.error = error]
    ELSE [task EXCEPT !.status = FAILED, !.error = error]

mark_failed(task, error) ==
    [task EXCEPT !.status = FAILED, !.error = error]

\* ------------------------------------------------------- task identifier
RECURSIVE DecDigits(_)
\* decimal digits of a natural number, most significant first
DecDigits(n) ==
    IF n < 10 THEN <<n>> ELSE Append(DecDigits(n \div 10), n % 10)

PadWidth == 4

\* format(n, "04d"): zero padded on the left to at least PadWidth digits
Format04d(n) ==
    LET ds == DecDigits(n)
    IN  IF Len(ds) >= PadWidth THEN ds
        ELSE [i \in 1..(PadWidth - Len(ds)) |-> 0] \o ds

\* the identifier cut to eight characters: "task_" and three digits
TaskIdCut(n) == [prefix |-> "task_", digits |-> SubSeq(Format04d(n), 1, 3)]

\* f"task_{n:04d}"
TaskId(n) == [prefix |-> "task_", digits |-> Format04d(n)]

RECURSIVE DigitsValue(_)
\* the number a digit sequence denotes
DigitsValue(ds) ==
    IF ds = <<>> THEN 0
    ELSE 10 * DigitsValue(SubSeq(ds, 1, Len(ds) - 1)) + ds[Len(ds)]

SeqNo(id) == DigitsValue(id.digits)

\* ------------------------------------------------------------ exceptions
NoError      == "none"
ValueError   == "ValueError"
RuntimeError == "RuntimeError"

\* str(KeyError(k)) is repr(k)
KeyErrorStr(k) == "'" \o k \o "'"

\* self.agents: dict name -> handle
VARIABLE agents
\* self.tasks: dict task_id -> AgentTask
VARIABLE tasks
\* self.task_counter
VARIABLE task_counter
\* outcome of the most recent coordinator call
VARIABLE last
\* identifiers returned by create_task since the last reset
VARIABLE issued
\* identifiers returned by create_task since construction
VARIABLE everIssued
\* number of coordinator calls made so far
VARIABLE calls

\* github_tools: whether the import of PyGithub succeeded
VARIABLE GITHUB_AVAILABLE
\* os.environ, a dict
VARIABLE environ
\* the attributes of the GitHubClient constructed last, a dict; None before
VARIABLE github_client
\* the last call made to github_tools and how it ended
VARIABLE github_last

\* workspace: the regular files under base_dir, a function from the path
\* of each (its components below base_dir) to its content
VARIABLE files
\* workspace: the directories under base_dir
VARIABLE dirs
\* the last call made to the workspace manager and how it ended
VARIABLE workspace_last

\* the steps the callers have taken inside the coordinator, oldest first
VARIABLE history
\* each caller's position inside the coordinator call it is making, with
\* the call's arguments and local variables
VARIABLE frames

coordinator_vars ==
    <<agents, tasks, task_counter, last, issued, everIssued, calls>>

github_vars == <<GITHUB_AVAILABLE, environ, github_client, github_last>>

workspace_vars == <<files, dirs, workspace_last>>

step_vars == <<history, frames>>

\* the state outside the coordinator
outside_vars == <<github_vars, workspace_vars, step_vars>>

vars == <<coordinator_vars, outside_vars>>

\* the coordinator's own fields
Self == [agents |-> agents, tasks |-> tasks, task_counter |-> task_counter]

\* what a call hands back to its caller: the coordinator afterwards, the
\* exception raised (NoError for a normal return), its message, the return
\* value, the identifiers create_task returned and the handle invocations
\* made on the way
Outcome(c, raised, msg, ret, created, invoked) ==
    [c |-> c, raised |-> raised, msg |-> msg, ret |-> ret,
     created |-> created, invoked |-> invoked]

\* ------------------------------------------------------ AgentCoordinator
\* __init__
NewCoordinator == [agents |-> <<>>, tasks |-> <<>>, task_counter |-> 0]

\* register_agent keeping the handle a name already has
register_agent_keep_first(c, agent_name, agent_instance) ==
    IF DictHas(c.agents, agent_name)
    THEN Outcome(c, NoError, None, None, <<>>, <<>>)
    ELSE Outcome([c EXCEPT !.agents = DictSet(c.agents, agent_name,
                                              agent_instance)],
                 NoError, None, None, <<>>, <<>>)

register_agent(c, agent_name, agent_instance) ==
    Outcome([c EXCEPT !.agents = DictSet(c.agents, agent_name, agent_instance)],
            NoError, None, None, <<>>, <<>>)

\* unregister_agent deleting the name without looking it up first
unregister_agent_strict(c, agent_name) ==
    IF DictHas(c.agents, agent_name)
    THEN Outcome([c EXCEPT !.agents = DictDel(c.agents, agent_name)],
                 NoError, None, None, <<>>, <<>>)
    ELSE Outcome(c, "KeyError", <<KeyErrorStr(agent_name)>>,
                 None, <<>>, <<>>)

unregister_agent(c, agent_name) ==
    IF DictHas(c.agents, agent_name)
    THEN Outcome([c EXCEPT !.agents = DictDel(c.agents, agent_name)],
                 NoError, None, None, <<>>, <<>>)
    ELSE Outcome(c, NoError, None, None, <<>>, <<>>)

\* create_task without the counter increment
create_task_no_increment(c, agent_name, description) ==
    IF ~DictHas(c.agents, agent_name)
    THEN Outcome(c, ValueError,
                 <<"Agent '", agent_name, "' is not registered">>,
                 None, <<>>, <<>>)
    ELSE LET task_id == TaskId(c.task_counter)
             task    == AgentTask(task_id, agent_name, description)
         IN  Outcome([c EXCEPT !.tasks = DictSet(c.tasks, task_id, task)],
                     NoError, None, task_id, <<task_id>>, <<>>)

\* create_task taking the next counter value before it checks the agent
create_task_count_first(c, agent_name, description) ==
    LET counter == c.task_counter + 1
        task_id == TaskId(counter)
        task    == AgentTask(task_id, agent_name, description)
    IN  IF ~DictHas(c.agents, agent_name)
        THEN Outcome([c EXCEPT !.task_counter = counter], ValueError,
                     <<"Agent '", agent_name, "' is not registered">>,
                     None, <<>>, <<>>)
        ELSE Outcome([c EXCEPT !.task_counter = counter,
                               !.tasks = DictSet(c.tasks, task_id, task)],
                     NoError, None, task_id, <<task_id>>, <<>>)

create_task(c, agent_name, description) ==
    IF ~DictHas(c.agents, agent_name)
    THEN Outcome(c, ValueError,
                 <<"Agent '", agent_name, "' is not registered">>,
                 None, <<>>, <<>>)
    ELSE LET counter == c.task_counter + 1
             task_id == TaskId(counter)
             task    == AgentTask(task_id, agent_name, description)
         IN  Outcome([c EXCEPT !.task_counter = counter,
                               !.tasks = DictSet(c.tasks, task_id, task)],
                     NoError, None, task_id, <<task_id>>, <<>>)

\* agent.execute(description) on handle h: the handle either returns its
\* answer to the description or raises an exception with message out.msg
HandleResult(h, description) == <<h, description>>

HandleOutcomes ==
    {[ok |-> TRUE, msg |-> None]} \cup [ok : {FALSE}, msg : Messages]

\* one call of agent.execute as the handle saw it
Invocation(h, description, out) ==
    [handle |-> h, description |-> description, ok |-> out.ok, msg |-> out.msg]

\* execute_task retrying a handle that raised, once
execute_task_retry(c, task_id, out) ==
    IF ~DictHas(c.tasks, task_id)
    THEN Outcome(c, ValueError, <<"Task '", task_id, "' not found">>,
                 None, <<>>, <<>>)
    ELSE LET task    == mark_in_progress(DictGet(c.tasks, task_id))
             found   == DictHas(c.agents, task.agent_name)
             agent   == DictGet(c.agents, task.agent_name)
             invoked == IF found
                        THEN <<Invocation(agent, task.description, out)>>
                        ELSE <<>>
         IN  IF found /\ out.ok
             THEN LET result == HandleResult(agent, task.description)
                  IN  Outcome([c EXCEPT !.tasks = DictSet(c.tasks, task_id,
                                            mark_completed(task, result))],
                              NoError, None, result, <<>>, invoked)
             ELSE LET e         == IF found THEN out.msg
                                   ELSE KeyErrorStr(task.agent_name)
                      error_msg == <<"Task execution failed: ", e>>
                  IN  Outcome([c EXCEPT !.tasks = DictSet(c.tasks, task_id,
                                            mark_failed(task, error_msg))],
                              RuntimeError, error_msg, None, <<>>,
                              invoked \o invoked)

\* execute_task looking the task up inside the try block, so that an
\* absent identifier is reported as a failed execution
execute_task_lookup_in_try(c, task_id, out) ==
    IF ~DictHas(c.tasks, task_id)
    THEN Outcome(c, RuntimeError,
                 <<"Task execution failed: ", "'", task_id, "'">>,
                 None, <<>>, <<>>)
    ELSE LET task    == mark_in_progress(DictGet(c.tasks, task_id))
             found   == DictHas(c.agents, task.agent_name)
             agent   == DictGet(c.agents, task.agent_name)
             invoked == IF found
                        THEN <<Invocation(agent, task.description, out)>>
                        ELSE <<>>
         IN  IF found /\ out.ok
             THEN LET result == HandleResult(agent, task.description)
                  IN  Outcome([c EXCEPT !.tasks = DictSet(c.tasks, task_id,
                                            mark_completed(task, result))],
                              NoError, None, result, <<>>, invoked)
             ELSE LET e         == IF found THEN out.msg
                                   ELSE KeyErrorStr(task.agent_name)
                      error_msg == <<"Task execution failed: ", e>>
                  IN  Outcome([c EXCEPT !.tasks = DictSet(c.tasks, task_id,
                                            mark_failed(task, error_msg))],
                              RuntimeError, error_msg, None, <<>>, invoked)
\* execute_task looking the agent up before the try block, so that the
\* KeyError of an unregistered agent leaves the call uncaught
execute_task_lookup_before_try(c, task_id, out) ==
    IF ~DictHas(c.tasks, task_id)
    THEN Outcome(c, ValueError, <<"Task '", task_id, "' not found">>,
                 None, <<>>, <<>>)
    ELSE LET task    == mark_in_progress(DictGet(c.tasks, task_id))
             found   == DictHas(c.agents, task.agent_name)
             agent   == DictGet(c.agents, task.agent_name)
             invoked == <<Invocation(agent, task.description, out)>>
         IN  IF ~found
             THEN Outcome([c EXCEPT !.tasks = DictSet(c.tasks, task_id, task)],
                          "KeyError", <<KeyErrorStr(task.agent_name)>>,
                          None, <<>>, <<>>)
             ELSE IF out.ok
             THEN LET result == HandleResult(agent, task.description)
                  IN  Outcome([c EXCEPT !.tasks = DictSet(c.tasks, task_id,
                                            mark_completed(task, result))],
                              NoError, None, result, <<>>, invoked)
             ELSE LET error_msg == <<"Task execution failed: ", out.msg>>
                  IN  Outcome([c EXCEPT !.tasks = DictSet(c.tasks, task_id,
                                            mark_failed(task, error_msg))],
                              RuntimeError, error_msg, None, <<>>, invoked)

execute_task(c, task_id, out) ==
    IF ~DictHas(c.tasks, task_id)
    THEN Outcome(c, ValueError, <<"Task '", task_id, "' not found">>,
                 None, <<>>, <<>>)
    ELSE LET task    == mark_in_progress(DictGet(c.tasks, task_id))
             found   == DictHas(c.agents, task.agent_name)
             agent   == DictGet(c.agents, task.agent_name)
             invoked == IF found
                        THEN <<Invocation(agent, task.description, out)>>
                        ELSE <<>>
         IN  IF found /\ out.ok
             THEN LET result == HandleResult(agent, task.description)
                  IN  Outcome([c EXCEPT !.tasks = DictSet(c.tasks, task_id,
                                            mark_completed(task, result))],
                              NoError, None, result, <<>>, invoked)
             ELSE LET e         == IF found THEN out.msg
                                   ELSE KeyErrorStr(task.agent_name)
                      error_msg == <<"Task execution failed: ", e>>
                  IN  Outcome([c EXCEPT !.tasks = DictSet(c.tasks, task_id,
                                            mark_failed(task, error_msg))],
                              RuntimeError, error_msg, None, <<>>, invoked)

RECURSIVE workflow_loop(_, _, _, _, _, _, _)
\* the for loop of execute_workflow from step i on; outs[i] is what the
\* handle does if step i invokes it
workflow_loop(c, steps, outs, i, results, created, invoked) ==
    IF i > Len(steps)
    THEN Outcome(c, NoError, None, results, created, invoked)
    ELSE LET cr == create_task(c, steps[i].agent_name, steps[i].description)
             ex == execute_task(cr.c, cr.ret, outs[i])
         IN  IF cr.raised # NoError
             THEN Outcome(cr.c, cr.raised, cr.msg, None, created, invoked)
             ELSE IF ex.raised # NoError
             THEN Outcome(ex.c, ex.raised, ex.msg, None,
                          created \o cr.created, invoked \o ex.invoked)
             ELSE workflow_loop(ex.c, steps, outs, i + 1,
                                Append(results, ex.ret),
                                created \o cr.created,
                                invoked \o ex.invoked)

Reverse(s) == [i \in 1..Len(s) |-> s[Len(s) + 1 - i]]

\* execute_workflow inserting each result at the front of the list
execute_workflow_prepend(c, workflow_steps, outs) ==
    LET o == workflow_loop(c, workflow_steps, outs, 1, <<>>, <<>>, <<>>)
    IN  [o EXCEPT !.ret = Reverse(o.ret)]

RECURSIVE workflow_loop_continue(_, _, _, _, _, _, _, _)
\* the loop of execute_workflow going on to the remaining steps after a
\* step failed, and raising the first failure at the end
workflow_loop_continue(c, steps, outs, i, results, created, invoked, err) ==
    IF i > Len(steps)
    THEN IF err = None
         THEN Outcome(c, NoError, None, results, created, invoked)
         ELSE Outcome(c, err[1], err[2], None, created, invoked)
    ELSE LET cr == create_task(c, steps[i].agent_name, steps[i].description)
             ex == execute_task(cr.c, cr.ret, outs[i])
         IN  IF cr.raised # NoError
             THEN Outcome(cr.c, cr.raised, cr.msg, None, created, invoked)
             ELSE workflow_loop_continue(
                      ex.c, steps, outs, i + 1,
                      IF ex.raised = NoError THEN Append(results, ex.ret)
                                             ELSE results,
                      created \o cr.created, invoked \o ex.invoked,
                      IF ex.raised # NoError /\ err = None
                      THEN <<ex.raised, ex.msg>> ELSE err)

execute_workflow_continue(c, workflow_steps, outs) ==
    workflow_loop_continue(c, workflow_steps, outs, 1, <<>>, <<>>, <<>>, None)

execute_workflow(c, workflow_steps, outs) ==
    workflow_loop(c, workflow_steps, outs, 1, <<>>, <<>>, <<>>)

\* TaskStatus.value; the members are represented by their values
StatusValue(status) ==
    CASE status = PENDING     -> "pending"
      [] status = IN_PROGRESS -> "in_progress"
      [] status = COMPLETED   -> "completed"
      [] status = FAILED      -> "failed"

\* get_task_status answering for an absent identifier with the record of
\* a task that was never created, where it should raise
get_task_status_default(c, task_id) ==
    LET task == IF DictHas(c.tasks, task_id) THEN DictGet(c.tasks, task_id)
                ELSE AgentTask(task_id, "", "")
    IN  Outcome(c, NoError, None,
                [task_id |-> task.task_id, agent_name |-> task.agent_name,
                 description |-> task.description,
                 status |-> StatusValue(task.status),
                 result |-> task.result, error |-> task.error],
                <<>>, <<>>)

get_task_status(c, task_id) ==
    IF ~DictHas(c.tasks, task_id)
    THEN Outcome(c, ValueError, <<"Task '", task_id, "' not found">>,
                 None, <<>>, <<>>)
    ELSE LET task == DictGet(c.tasks, task_id)
         IN  Outcome(c, NoError, None,
                     [task_id |-> task.task_id,
                      agent_name |-> task.agent_name,
                      description |-> task.description,
                      status |-> StatusValue(task.status),
                      result |-> task.result, error |-> task.error],
                     <<>>, <<>>)

\* an Optional[str] argument is None or <<s>> for the string s
Some(s) == <<s>>

\* bool(x) of an Optional[str]: None and the empty string are false
Truthy(x) == x # None /\ x[1] # ""

get_pending_tasks(c, agent_name) ==
    LET pending  == SelectSeq(DictValues(c.tasks),
                              LAMBDA task : task.status = PENDING)
        filtered == IF Truthy(agent_name)
                    THEN SelectSeq(pending,
                                   LAMBDA task :
                                       task.agent_name = agent_name[1])
                    ELSE pending
    IN  Outcome(c, NoError, None, filtered, <<>>, <<>>)

\* ---------------------------------------------------------- GitHubClient
\* os.getenv(key)
getenv(env, key) == IF DictHas(env, key) THEN Some(DictGet(env, key)) ELSE None

\* a or b, on Optional[str]
Or(a, b) == IF Truthy(a) THEN a ELSE b

\* PyGithub: Github(token) and what get_repo(name) returns
Github(token) == [token |-> token]

Repository(full_name) == [full_name |-> full_name]

\* GitHubClient.__init__; get_repo_ok says whether get_repo, if it is
\* called, returns or raises GithubException.  The attributes of the new
\* object are a dict, an attribute never assigned being an absent key.
GitHubClient(available, env, token, repo_name, get_repo_ok) ==
    LET self_token     == Or(token, getenv(env, "GITHUB_TOKEN"))
        self_repo_name == Or(repo_name, getenv(env, "GITHUB_REPO"))
        self0 == <<<<"token", self_token>>, <<"repo_name", self_repo_name>>>>
    IN  IF available /\ Truthy(self_token)
        THEN LET self1 == DictSet(self0, "client",
                                  Some(Github(self_token[1])))
             IN  IF Truthy(self_repo_name)
                 THEN IF get_repo_ok
                      THEN [raised |-> NoError,
                            self |-> DictSet(self1, "repo",
                                 Some(Repository(self_repo_name[1])))]
                      ELSE [raised |-> "GithubException", self |-> None]
                 ELSE [raised |-> NoError, self |-> self1]
        ELSE [raised |-> NoError,
              self |-> DictSet(DictSet(self0, "client", None), "repo", None)]

\* the record create_issue returns in mock mode
MockIssue(title) ==
    [number |-> 1, url |-> "https://github.com/mock/issue/1",
     title |-> title, state |-> "open"]

\* what the service does with a create_issue request: it creates the issue
\* under some number, or the request fails
IssueOutcomes == [ok : {TRUE}, number : {7}] \cup [ok : {FALSE}, number : {0}]

\* create_issue on the client with attributes self
create_issue(available, self, title, out) ==
    IF ~available
    THEN [raised |-> NoError, ret |-> MockIssue(title)]
    ELSE IF ~DictHas(self, "repo")
    THEN [raised |-> "AttributeError", ret |-> None]
    ELSE IF DictGet(self, "repo") = None
    THEN [raised |-> NoError, ret |-> MockIssue(title)]
    ELSE IF out.ok
    THEN [raised |-> NoError,
          ret |-> [number |-> out.number,
                   url |-> "https://github.com/"
                             \o DictGet(self, "repo")[1].full_name
                             \o "/issues/" \o ToString(out.number),
                   title |-> title, state |-> "open"]]
    ELSE [raised |-> "GithubException", ret |-> None]

\* ------------------------------------------------------ WorkspaceManager
\* str.lower on the agent names in use
Lower(name) == IF name = "A" THEN "a" ELSE name

RECURSIVE ResolveFrom(_, _)
\* the directory entry the operating system reaches from the directory
\* with components stack along the components rest: ".." steps up
ResolveFrom(stack, rest) ==
    IF rest = <<>> THEN stack
    ELSE IF Head(rest) = ".."
    THEN ResolveFrom(IF stack = <<>> \/ stack[Len(stack)] = ".."
                     THEN Append(stack, "..")
                     ELSE SubSeq(stack, 1, Len(stack) - 1),
                     Tail(rest))
    ELSE ResolveFrom(Append(stack, Head(rest)), Tail(rest))

\* os.path.join(directory, filename), as the operating system resolves it
Join(directory, filename) == ResolveFrom(directory, filename)

\* os.makedirs(path, exist_ok=True): path and the directories above it
Makedirs(ds, path) == ds \cup {SubSeq(path, 1, n) : n \in 1..Len(path)}

IsUnder(path, directory) ==
    /\ Len(path) > Len(directory)
    /\ SubSeq(path, 1, Len(directory)) = directory

\* the file system a call leaves, the exception it raised and its result
FsOutcome(fs_files, fs_dirs, raised, ret) ==
    [files |-> fs_files, dirs |-> fs_dirs, raised |-> raised, ret |-> ret]

get_agent_workspace(fs, agent_name) ==
    LET agent_dir == Join(<<>>, <<Lower(agent_name)>>)
    IN  FsOutcome(fs.files, Makedirs(fs.dirs, agent_dir), NoError, agent_dir)

write_file(fs, agent_name, filename, content) ==
    LET ws        == get_agent_workspace(fs, agent_name)
        file_path == Join(ws.ret, filename)
        made      == Makedirs(ws.dirs,
                              SubSeq(file_path, 1, Len(file_path) - 1))
    IN  IF file_path \in made
        THEN FsOutcome(ws.files, made, "IsADirectoryError", None)
        ELSE FsOutcome([p \in DOMAIN ws.files \cup {file_path} |->
                            IF p = file_path THEN content ELSE ws.files[p]],
                       made, NoError, file_path)

read_file(fs, agent_name, filename) ==
    LET ws        == get_agent_workspace(fs, agent_name)
        file_path == Join(ws.ret, filename)
    IN  IF file_path \in DOMAIN ws.files
        THEN FsOutcome(ws.files, ws.dirs, NoError, ws.files[file_path])
        ELSE IF file_path \in ws.dirs
        THEN FsOutcome(ws.files, ws.dirs, "IsADirectoryError", None)
        ELSE FsOutcome(ws.files, ws.dirs, "FileNotFoundError", None)

\* list_files without a pattern: the regular files below the workspace,
\* relative to it; sorted() makes the order a function of this set
list_files(fs, agent_name) ==
    LET ws == get_agent_workspace(fs, agent_name)
    IN  FsOutcome(ws.files, ws.dirs, NoError,
                  {SubSeq(p, Len(ws.ret) + 1, Len(p)) :
                       p \in {q \in DOMAIN ws.files : IsUnder(q, ws.ret)}})

delete_file(fs, agent_name, filename) ==
    LET ws        == get_agent_workspace(fs, agent_name)
        file_path == Join(ws.ret, filename)
    IN  IF file_path \in DOMAIN ws.files
        THEN FsOutcome([p \in DOMAIN ws.files \ {file_path} |-> ws.files[p]],
                       ws.dirs, NoError, None)
        ELSE IF file_path \in ws.dirs
        THEN FsOutcome(ws.files, ws.dirs, "IsADirectoryError", None)
        ELSE FsOutcome(ws.files, ws.dirs, "FileNotFoundError", None)

\* shutil.rmtree of the workspace, then os.makedirs of it
clear_workspace(fs, agent_name) ==
    LET ws == get_agent_workspace(fs, agent_name)
    IN  FsOutcome([p \in {q \in DOMAIN ws.files : ~IsUnder(q, ws.ret)} |->
                       ws.files[p]],
                  {d \in ws.dirs : ~IsUnder(d, ws.ret)},
                  NoError, None)

\* reset clearing the table and leaving the counter where it is
reset_keeps_counter(c) ==
    Outcome([c EXCEPT !.tasks = <<>>], NoError, None, None, <<>>, <<>>)

reset(c) ==
    Outcome([c EXCEPT !.tasks = <<>>, !.task_counter = 0],
            NoError, None, None, <<>>, <<>>)

\* get_workflow_summary counting every task that is not Completed as failed
get_workflow_summary_miscount(c) ==
    LET ts       == DictValues(c.tasks)
        Count(s) == Cardinality({i \in 1..Len(ts) : ts[i].status = s})
    IN  [total_tasks |-> Len(c.tasks),
         registered_agents |-> DictKeys(c.agents),
         status_counts |-> [pending |-> Count(PENDING),
                            in_progress |-> Count(IN_PROGRESS),
                            completed |-> Count(COMPLETED),
                            failed |-> Len(ts) - Count(COMPLETED)]]

get_workflow_summary(c) ==
    LET ts       == DictValues(c.tasks)
        Count(s) == Cardinality({i \in 1..Len(ts) : ts[i].status = s})
    IN  [total_tasks |-> Len(c.tasks),
         registered_agents |-> DictKeys(c.agents),
         status_counts |-> [pending |-> Count(PENDING),
                            in_progress |-> Count(IN_PROGRESS),
                            completed |-> Count(COMPLETED),
                            failed |-> Count(FAILED)]]

\* --------------------------------------------------------------- actions
\* ------------------------------------------------- the calls step by step
\* a caller that is not inside the coordinator
IdleFrame ==
    [pc |-> "idle", op |-> "none", agent_name |-> "", description |-> "",
     own_counter |-> 0, task_id |-> None, agent |-> None, result |-> None,
     error_msg |-> None, workflow_steps |-> <<>>, i |-> 0, results |-> <<>>,
     created |-> <<>>, raised |-> NoError, msg |-> None, ret |-> None]

\* the exception leaves every call on the stack, execute_workflow included
Raise(f, raised, msg) ==
    [f EXCEPT !.pc = "done", !.raised = raised, !.msg = msg]

\* create_task returns task_id: to its caller, or to execute_workflow,
\* which goes on to execute_task(task_id)
ReturnFromCreateTask(f) ==
    IF f.op = "execute_workflow"
    THEN [f EXCEPT !.pc = "ex_lookup_task",
                   !.created = Append(f.created, f.task_id)]
    ELSE [f EXCEPT !.pc = "done", !.ret = f.task_id,
                   !.created = Append(f.created, f.task_id)]

\* execute_task returns result: to its caller, or to execute_workflow,
\* which goes on to results.append(result)
ReturnFromExecuteTask(f) ==
    IF f.op = "execute_workflow"
    THEN [f EXCEPT !.pc = "wf_append"]
    ELSE [f EXCEPT !.pc = "done", !.ret = f.result]

\* the identifier formatted from the caller's own increment, not from the
\* counter as it is when the identifier is formatted
FormatOwnCounter(counter, own_counter) == TaskId(own_counter)

\* f"task_{self.task_counter:04d}": the counter is read again
FormatTaskId(counter, own_counter) == TaskId(counter)

NoCall == [op |-> "init", args |-> <<>>, raised |-> NoError, msg |-> None,
           ret |-> None, created |-> <<>>, invoked |-> <<>>]

Init ==
    /\ agents = NewCoordinator.agents
    /\ tasks = NewCoordinator.tasks
    /\ task_counter = NewCoordinator.task_counter
    /\ last = NoCall
    /\ issued = <<>>
    /\ everIssued = {}
    /\ calls = 0
    /\ GITHUB_AVAILABLE = FALSE
    /\ environ = <<>>
    /\ github_client = None
    /\ github_last = NoCall
    /\ files = <<>>
    /\ dirs = {}
    /\ workspace_last = NoCall
    /\ history = <<>>
    /\ frames = [t \in Callers |-> IdleFrame]

\* one call of operation op returning outcome out
Call(op, args, out) ==
    \E o \in {out} :
        /\ calls' = calls + 1
        /\ agents' = o.c.agents
        /\ tasks' = o.c.tasks
        /\ task_counter' = o.c.task_counter
        /\ last' = [op |-> op, args |-> args, raised |-> o.raised,
                    msg |-> o.msg, ret |-> o.ret, created |-> o.created,
                    invoked |-> o.invoked]
        /\ issued' = IF op = "reset" THEN <<>> ELSE issued \o o.created
        /\ everIssued' = everIssued \cup SeqToSet(o.created)
        /\ UNCHANGED outside_vars

\* what the handles do is not the caller's choice: the one invoked at step
\* failAt raises with message m, the ones invoked before it return
\* (failAt = 0: none raises)
WorkflowOutcomes(len, failAt, m) ==
    [i \in 1..len |-> IF i = failAt THEN [ok |-> FALSE, msg |-> m]
                                    ELSE [ok |-> TRUE, msg |-> None]]

\* execute_workflow on a list of at most maxSteps steps, each with an agent
\* name of Names and a description of descs
Workflow(descs, maxSteps) ==
    \E len \in 0..maxSteps :
        \E steps \in [1..len -> [agent_name : Names, description : descs]],
           failAt \in 0..len, m \in Messages :
            Call("execute_workflow", <<steps>>,
                 execute_workflow(Self, steps,
                                  WorkflowOutcomes(len, failAt, m)))

\* ---- Spec: every interleaving of at most MaxCalls calls
RegisterAgent ==
    /\ calls < MaxCalls
    /\ \E n \in Names, h \in Handles :
           Call("register_agent", <<n, h>>, register_agent(Self, n, h))

UnregisterAgent ==
    /\ calls < MaxCalls
    /\ \E n \in Names :
           Call("unregister_agent", <<n>>, unregister_agent(Self, n))

CreateTask ==
    /\ calls < MaxCalls
    /\ \E n \in Names, d \in Descs :
           Call("create_task", <<n, d>>, create_task(Self, n, d))

\* the caller passes an identifier create_task returned since the last
\* reset, or the next one, which is not in the table
ExecuteTask ==
    /\ calls < MaxCalls
    /\ \E k \in 1..(task_counter + 1), out \in HandleOutcomes :
           Call("execute_task", <<TaskId(k)>>,
                execute_task(Self, TaskId(k), out))

ExecuteWorkflow ==
    /\ calls < MaxCalls
    /\ Workflow(Descs, MaxSteps)

Reset ==
    /\ calls < MaxCalls
    /\ Call("reset", <<>>, reset(Self))

Next ==
    \/ RegisterAgent
    \/ UnregisterAgent
    \/ CreateTask
    \/ ExecuteTask
    \/ ExecuteWorkflow
    \/ Reset

Spec == Init /\ [][Next]_vars

\* ---- FlowSpec: one execute_workflow call of up to MaxFlowSteps steps, on a
\* coordinator on which the agents were registered and at most one task
\* was created before
FlowRegisterAgent ==
    /\ last.op \in {"init", "register_agent"}
    /\ \E n \in Names, h \in Handles :
           /\ ~DictHas(agents, n)
           /\ Call("register_agent", <<n, h>>, register_agent(Self, n, h))

FlowCreateTask ==
    /\ last.op = "register_agent"
    /\ \E n \in Names, d \in FlowDescs :
           /\ DictHas(agents, n)
           /\ Call("create_task", <<n, d>>, create_task(Self, n, d))

FlowExecuteWorkflow ==
    /\ last.op # "execute_workflow"
    /\ Workflow(FlowDescs, MaxFlowSteps)

FlowNext ==
    \/ FlowRegisterAgent
    \/ FlowCreateTask
    \/ FlowExecuteWorkflow

FlowSpec == Init /\ [][FlowNext]_vars

\* ---- QuerySpec: every interleaving of at most MaxQueryCalls changing
\* calls, with the read-only calls made in every state on the way; one of
\* the agent names is the empty string
\* a read-only call: it is not counted, having nothing to bound
Query(op, args, out) ==
    \E o \in {out} :
        /\ agents' = o.c.agents
        /\ tasks' = o.c.tasks
        /\ task_counter' = o.c.task_counter
        /\ last' = [op |-> op, args |-> args, raised |-> o.raised,
                    msg |-> o.msg, ret |-> o.ret, created |-> o.created,
                    invoked |-> o.invoked]
        /\ UNCHANGED <<issued, everIssued, calls, outside_vars>>

QueryRegisterAgent ==
    /\ calls < MaxQueryCalls
    /\ \E n \in QueryNames, h \in Handles :
           Call("register_agent", <<n, h>>, register_agent(Self, n, h))

QueryUnregisterAgent ==
    /\ calls < MaxQueryCalls
    /\ \E n \in QueryNames :
           Call("unregister_agent", <<n>>, unregister_agent(Self, n))

QueryCreateTask ==
    /\ calls < MaxQueryCalls
    /\ \E n \in QueryNames, d \in Descs :
           Call("create_task", <<n, d>>, create_task(Self, n, d))

QueryExecuteTask ==
    /\ calls < MaxQueryCalls
    /\ \E k \in 1..task_counter, out \in HandleOutcomes :
           Call("execute_task", <<TaskId(k)>>,
                execute_task(Self, TaskId(k), out))

GetTaskStatus ==
    \E k \in 1..(task_counter + 1) :
        Query("get_task_status", <<TaskId(k)>>,
              get_task_status(Self, TaskId(k)))

GetPendingTasks ==
    \E agent_name \in {None} \cup {Some(n) : n \in QueryNames} :
        Query("get_pending_tasks", <<agent_name>>,
              get_pending_tasks(Self, agent_name))

QueryNext ==
    \/ QueryRegisterAgent
    \/ QueryUnregisterAgent
    \/ QueryCreateTask
    \/ QueryExecuteTask
    \/ GetTaskStatus
    \/ GetPendingTasks

QuerySpec == Init /\ [][QueryNext]_vars

\* ---- GitHubSpec: a GitHubClient constructed with or without PyGithub, a
\* token and a repository name, from arguments or the environment, and
\* create_issue called on it
GitHubInit ==
    /\ agents = NewCoordinator.agents
    /\ tasks = NewCoordinator.tasks
    /\ task_counter = NewCoordinator.task_counter
    /\ last = NoCall
    /\ issued = <<>>
    /\ everIssued = {}
    /\ calls = 0
    /\ GITHUB_AVAILABLE \in BOOLEAN
    /\ environ \in Environs
    /\ github_client = None
    /\ github_last = NoCall
    /\ files = <<>>
    /\ dirs = {}
    /\ workspace_last = NoCall
    /\ history = <<>>
    /\ frames = [t \in Callers |-> IdleFrame]

GitHubConstruct ==
    \E token \in TokenArgs, repo_name \in RepoArgs, get_repo_ok \in BOOLEAN :
        \E o \in {GitHubClient(GITHUB_AVAILABLE, environ, token, repo_name,
                               get_repo_ok)} :
            /\ github_client' = IF o.raised = NoError THEN o.self
                                                       ELSE github_client
            /\ github_last' = [NoCall EXCEPT !.op = "__init__",
                                             !.args = <<token, repo_name>>,
                                             !.raised = o.raised]
            /\ UNCHANGED <<GITHUB_AVAILABLE, environ, coordinator_vars,
                           workspace_vars, step_vars>>

CreateIssue ==
    /\ github_client # None
    /\ \E title \in Titles, out \in IssueOutcomes :
           \E o \in {create_issue(GITHUB_AVAILABLE, github_client, title,
                                  out)} :
               /\ github_last' = [NoCall EXCEPT !.op = "create_issue",
                                                !.args = <<title>>,
                                                !.raised = o.raised,
                                                !.ret = o.ret]
               /\ UNCHANGED <<GITHUB_AVAILABLE, environ, github_client,
                              coordinator_vars, workspace_vars, step_vars>>

GitHubNext ==
    \/ GitHubConstruct
    \/ CreateIssue

GitHubSpec == GitHubInit /\ [][GitHubNext]_vars

\* ---- WorkspaceSpec: every sequence of workspace calls by the agents of
\* WorkspaceNames on the files of Filenames
Fs == [files |-> files, dirs |-> dirs]

WorkspaceCall(op, args, out) ==
    \E o \in {out} :
        /\ files' = o.files
        /\ dirs' = o.dirs
        /\ workspace_last' = [NoCall EXCEPT !.op = op, !.args = args,
                                            !.raised = o.raised,
                                            !.ret = o.ret]
        /\ UNCHANGED <<coordinator_vars, github_vars, step_vars>>

WriteFile ==
    \E a \in WorkspaceNames, f \in Filenames, content \in Contents :
        WorkspaceCall("write_file", <<a, f, content>>,
                      write_file(Fs, a, f, content))

ReadFile ==
    \E a \in WorkspaceNames, f \in Filenames :
        WorkspaceCall("read_file", <<a, f>>, read_file(Fs, a, f))

ListFiles ==
    \E a \in WorkspaceNames :
        WorkspaceCall("list_files", <<a>>, list_files(Fs, a))

DeleteFile ==
    \E a \in WorkspaceNames, f \in Filenames :
        WorkspaceCall("delete_file", <<a, f>>, delete_file(Fs, a, f))

ClearWorkspace ==
    \E a \in WorkspaceNames :
        WorkspaceCall("clear_workspace", <<a>>, clear_workspace(Fs, a))

WorkspaceNext ==
    \/ WriteFile
    \/ ReadFile
    \/ ListFiles
    \/ DeleteFile
    \/ ClearWorkspace

WorkspaceSpec == Init /\ [][WorkspaceNext]_vars

\* ---- the steps of create_task, execute_task and execute_workflow, one
\* action per statement, for caller t
\* caller t takes the step called name, leaving the coordinator as c and
\* its own frame as f
Step(t, name, c, f) ==
    /\ agents' = c.agents
    /\ tasks' = c.tasks
    /\ task_counter' = c.task_counter
    /\ frames' = [frames EXCEPT ![t] = f]
    /\ history' = Append(history, [caller |-> t, step |-> name,
                                   i |-> frames[t].i])
    /\ UNCHANGED <<last, issued, everIssued, calls, github_vars,
                   workspace_vars>>

\* if agent_name not in self.agents: raise ValueError(...)
CtCheck(t) ==
    /\ frames[t].pc = "ct_check"
    /\ LET f == frames[t]
       IN  Step(t, "ct_check", Self,
                IF ~DictHas(agents, f.agent_name)
                THEN Raise(f, ValueError,
                           <<"Agent '", f.agent_name, "' is not registered">>)
                ELSE [f EXCEPT !.pc = "ct_increment"])

\* self.task_counter += 1
CtIncrement(t) ==
    /\ frames[t].pc = "ct_increment"
    /\ Step(t, "ct_increment",
            [Self EXCEPT !.task_counter = task_counter + 1],
            [frames[t] EXCEPT !.pc = "ct_format",
                              !.own_counter = task_counter + 1])

\* task_id = f"task_{self.task_counter:04d}"
CtFormat(t) ==
    /\ frames[t].pc = "ct_format"
    /\ Step(t, "ct_format", Self,
            [frames[t] EXCEPT !.pc = "ct_insert",
                              !.task_id = FormatTaskId(task_counter,
                                              frames[t].own_counter)])

\* task = AgentTask(...); self.tasks[task_id] = task; return task_id
CtInsert(t) ==
    /\ frames[t].pc = "ct_insert"
    /\ LET f    == frames[t]
           task == AgentTask(f.task_id, f.agent_name, f.description)
       IN  Step(t, "ct_insert",
                [Self EXCEPT !.tasks = DictSet(tasks, f.task_id, task)],
                ReturnFromCreateTask(f))

\* if task_id not in self.tasks: raise ValueError(...); task = ...
ExLookupTask(t) ==
    /\ frames[t].pc = "ex_lookup_task"
    /\ LET f == frames[t]
       IN  Step(t, "ex_lookup_task", Self,
                IF ~DictHas(tasks, f.task_id)
                THEN Raise(f, ValueError,
                           <<"Task '", f.task_id, "' not found">>)
                ELSE [f EXCEPT !.pc = "ex_mark_in_progress"])

\* task.mark_in_progress()
ExMarkInProgress(t) ==
    /\ frames[t].pc = "ex_mark_in_progress"
    /\ LET f    == frames[t]
           task == DictGet(tasks, f.task_id)
       IN  Step(t, "ex_mark_in_progress",
                [Self EXCEPT !.tasks = DictSet(tasks, f.task_id,
                                               mark_in_progress(task))],
                [f EXCEPT !.pc = "ex_lookup_agent"])

\* agent = self.agents[task.agent_name], inside the try block
ExLookupAgent(t) ==
    /\ frames[t].pc = "ex_lookup_agent"
    /\ LET f    == frames[t]
           task == DictGet(tasks, f.task_id)
       IN  Step(t, "ex_lookup_agent", Self,
                IF DictHas(agents, task.agent_name)
                THEN [f EXCEPT !.pc = "ex_invoke",
                               !.agent = Some(DictGet(agents,
                                                      task.agent_name))]
                ELSE [f EXCEPT !.pc = "ex_mark_failed",
                               !.error_msg =
                                   <<"Task execution failed: ",
                                     KeyErrorStr(task.agent_name)>>])

\* agent.execute(task.description) is entered
ExInvoke(t) ==
    /\ frames[t].pc = "ex_invoke"
    /\ Step(t, "ex_invoke", Self, [frames[t] EXCEPT !.pc = "ex_running"])

\* agent.execute returns
ExHandleReturns(t) ==
    /\ frames[t].pc = "ex_running"
    /\ LET f    == frames[t]
           task == DictGet(tasks, f.task_id)
       IN  Step(t, "ex_returns", Self,
                [f EXCEPT !.pc = "ex_mark_completed",
                          !.result = HandleResult(f.agent[1],
                                                  task.description)])

\* agent.execute raises: error_msg = f"Task execution failed: {str(e)}"
ExHandleRaises(t) ==
    /\ frames[t].pc = "ex_running"
    /\ \E m \in Messages :
           Step(t, "ex_raises", Self,
                [frames[t] EXCEPT !.pc = "ex_mark_failed",
                                  !.error_msg =
                                      <<"Task execution failed: ", m>>])

\* task.mark_completed(result); return result
ExMarkCompleted(t) ==
    /\ frames[t].pc = "ex_mark_completed"
    /\ LET f    == frames[t]
           task == DictGet(tasks, f.task_id)
       IN  Step(t, "ex_mark_completed",
                [Self EXCEPT !.tasks = DictSet(tasks, f.task_id,
                                           mark_completed(task, f.result))],
                ReturnFromExecuteTask(f))

\* task.mark_failed(error_msg); raise RuntimeError(error_msg) from e
ExMarkFailed(t) ==
    /\ frames[t].pc = "ex_mark_failed"
    /\ LET f    == frames[t]
           task == DictGet(tasks, f.task_id)
       IN  Step(t, "ex_mark_failed",
                [Self EXCEPT !.tasks = DictSet(tasks, f.task_id,
                                           mark_failed(task, f.error_msg))],
                Raise(f, RuntimeError, f.error_msg))

\* for i, step in enumerate(workflow_steps, 1): the next step's
\* agent_name and description, or return results after the last one
WfFor(t) ==
    /\ frames[t].pc = "wf_for"
    /\ LET f == frames[t]
           n == f.i + 1
       IN  Step(t, "wf_for", Self,
                IF n > Len(f.workflow_steps)
                THEN [f EXCEPT !.pc = "done", !.ret = f.results]
                ELSE [f EXCEPT !.pc = "ct_check", !.i = n,
                          !.agent_name = f.workflow_steps[n].agent_name,
                          !.description = f.workflow_steps[n].description])

\* results.append(result)
WfAppend(t) ==
    /\ frames[t].pc = "wf_append"
    /\ Step(t, "wf_append", Self,
            [frames[t] EXCEPT !.pc = "wf_for",
                              !.results = Append(frames[t].results,
                                                 frames[t].result)])

\* ---- StepSpec: one caller runs one execute_workflow of at most
\* MaxStepSteps steps, statement by statement, after the agents were
\* registered
StepRegisterAgent ==
    /\ \A t \in Callers : frames[t].pc = "idle"
    /\ \E n \in Names, h \in Handles :
           /\ ~DictHas(agents, n)
           /\ Call("register_agent", <<n, h>>, register_agent(Self, n, h))

StepCallWorkflow ==
    /\ \A t \in Callers : frames[t].pc = "idle"
    /\ \E len \in 0..MaxStepSteps :
           \E steps \in [1..len -> [agent_name : Names,
                                    description : FlowDescs]] :
               Step("t1", "execute_workflow", Self,
                    [IdleFrame EXCEPT !.pc = "wf_for",
                                      !.op = "execute_workflow",
                                      !.workflow_steps = steps])

StepNext ==
    \/ StepRegisterAgent
    \/ StepCallWorkflow
    \/ \E t \in Callers :
           \/ WfFor(t)
           \/ CtCheck(t)
           \/ CtIncrement(t)
           \/ CtFormat(t)
           \/ CtInsert(t)
           \/ ExLookupTask(t)
           \/ ExMarkInProgress(t)
           \/ ExLookupAgent(t)
           \/ ExInvoke(t)
           \/ ExHandleReturns(t)
           \/ ExHandleRaises(t)
           \/ ExMarkCompleted(t)
           \/ ExMarkFailed(t)
           \/ WfAppend(t)

StepSpec == Init /\ [][StepNext]_vars

\* ---- RaceSpec: two callers each make one create_task call on one
\* coordinator, their statements interleaved in every order
RaceRegisterAgent ==
    /\ \A t \in Callers : frames[t].op = "none"
    /\ \E n \in Names, h \in Handles :
           /\ ~DictHas(agents, n)
           /\ Call("register_agent", <<n, h>>, register_agent(Self, n, h))

RaceCallCreateTask ==
    \E t \in Callers :
        /\ frames[t].op = "none"
        /\ \E n \in Names, d \in FlowDescs :
               Step(t, "create_task", Self,
                    [IdleFrame EXCEPT !.pc = "ct_check",
                                      !.op = "create_task",
                                      !.agent_name = n,
                                      !.description = d])

RaceNext ==
    \/ RaceRegisterAgent
    \/ RaceCallCreateTask
    \/ \E t \in Callers :
           \/ CtCheck(t)
           \/ CtIncrement(t)
           \/ CtFormat(t)
           \/ CtInsert(t)

RaceSpec == Init /\ [][RaceNext]_vars

\* ---- ExecRaceSpec: two callers each make one execute_task call on one
\* coordinator, their statements interleaved in every order, after one
\* agent was registered, one task created for it and the agent perhaps
\* unregistered again
ExecRaceRegisterAgent ==
    /\ \A t \in Callers : frames[t].op = "none"
    /\ agents = <<>>
    /\ tasks = <<>>
    /\ \E n \in Names, h \in Handles :
           Call("register_agent", <<n, h>>, register_agent(Self, n, h))

ExecRaceCreateTask ==
    /\ \A t \in Callers : frames[t].op = "none"
    /\ tasks = <<>>
    /\ \E n \in Names, d \in Descs :
           /\ DictHas(agents, n)
           /\ Call("create_task", <<n, d>>, create_task(Self, n, d))

ExecRaceUnregisterAgent ==
    /\ \A t \in Callers : frames[t].op = "none"
    /\ tasks # <<>>
    /\ \E n \in Names :
           /\ DictHas(agents, n)
           /\ Call("unregister_agent", <<n>>, unregister_agent(Self, n))

\* the caller passes the identifier create_task returned, or the next
\* one, which is not in the table
ExecRaceCallExecuteTask ==
    \E t \in Callers :
        /\ frames[t].op = "none"
        /\ tasks # <<>>
        /\ \E k \in 1..(task_counter + 1) :
               Step(t, "execute_task", Self,
                    [IdleFrame EXCEPT !.pc = "ex_lookup_task",
                                      !.op = "execute_task",
                                      !.task_id = TaskId(k)])

ExecRaceNext ==
    \/ ExecRaceRegisterAgent
    \/ ExecRaceCreateTask
    \/ ExecRaceUnregisterAgent
    \/ ExecRaceCallExecuteTask
    \/ \E t \in Callers :
           \/ ExLookupTask(t)
           \/ ExMarkInProgress(t)
           \/ ExLookupAgent(t)
           \/ ExInvoke(t)
           \/ ExHandleReturns(t)
           \/ ExHandleRaises(t)
           \/ ExMarkCompleted(t)
           \/ ExMarkFailed(t)

ExecRaceSpec == Init /\ [][ExecRaceNext]_vars

\* ================================================================ claims
Task(i) == tasks[i][2]

TaskIds == SeqToSet(DictKeys(tasks))

Terminal(status) == status \in {COMPLETED, FAILED}

\* C1: every task in the table has its result set exactly when it is
\* Completed and its error set exactly when it is Failed, so result and
\* error are never both set.
C1_ResultErrorMatchStatus ==
    \A i \in 1..Len(tasks) :
        /\ Task(i).result # None <=> Task(i).status = COMPLETED
        /\ Task(i).error # None <=> Task(i).status = FAILED

\* C2: a task that is Completed or Failed keeps its status for as long as
\* it is in the table, a Failed task keeps its error, and no call invokes a
\* handle for it again.
C2_TerminalIsFinal ==
    [][\A id \in TaskIds :
          (Terminal(DictGet(tasks, id).status) /\ DictHas(tasks', id))
          => /\ DictGet(tasks', id).status = DictGet(tasks, id).status
             /\ DictGet(tasks', id).error = DictGet(tasks, id).error
             /\ ~(last'.op = "execute_task" /\ last'.args[1] = id
                  /\ last'.invoked # <<>>)]_vars

\* C3: create_task with an agent name that is not registered raises
\* ValueError and leaves the task table and the counter as they were.
C3_UnknownAgentNoMutation ==
    [][(last'.op = "create_task" /\ ~DictHas(agents, last'.args[1]))
       => /\ last'.raised = ValueError
          /\ last'.ret = None
          /\ tasks' = tasks
          /\ task_counter' = task_counter]_vars

\* a create_task call has just failed on a coordinator that holds tasks
C3_Witness ==
    /\ last.op = "create_task"
    /\ last.raised = ValueError
    /\ ~DictHas(agents, last.args[1])
    /\ Len(tasks) > 0

\* C4: the identifiers create_task has returned since the last reset (or
\* since construction) are pairwise distinct and their sequence numbers
\* strictly increase in the order they were returned.
C4_IdsDistinctIncreasing ==
    \A i, j \in 1..Len(issued) :
        i < j => /\ issued[i] # issued[j]
                 /\ SeqNo(issued[i]) < SeqNo(issued[j])

\* three identifiers were returned, with a failed create_task after them
C4_Witness ==
    /\ Len(issued) >= 3
    /\ last.op = "create_task"
    /\ last.raised = ValueError

\* C5 as stated: no identifier create_task returns was returned by an
\* earlier create_task on this coordinator, resets included.
C5_NeverReused ==
    [][\A i \in 1..Len(last'.created) :
          last'.created[i] \notin everIssued]_vars

\* C5 amended: no identifier create_task returns was returned by an earlier
\* create_task since the last reset.
C5_NotReusedSinceReset ==
    [][\A i \in 1..Len(last'.created) :
          /\ last'.created[i] \notin SeqToSet(issued)
          /\ \A j \in 1..(i - 1) : last'.created[j] # last'.created[i]]_vars

\* identifiers were returned, a reset followed, and create_task has just
\* returned fewer than before the reset
C5_Witness ==
    /\ last.op \in {"create_task", "execute_workflow"}
    /\ last.created # <<>>
    /\ \E id \in everIssued : id \notin SeqToSet(issued)

\* C6: the summary's four status counts add up to total_tasks, total_tasks
\* is the size of the task table, and registered_agents lists exactly the
\* registered names.
C6_SummaryConsistent ==
    LET s  == get_workflow_summary(Self)
        sc == s.status_counts
    IN  /\ sc.pending + sc.in_progress + sc.completed + sc.failed
               = s.total_tasks
        /\ s.total_tasks = Cardinality(TaskIds)
        /\ SeqToSet(s.registered_agents)
               = {n \in Names : DictHas(agents, n)}
        /\ Len(s.registered_agents)
               = Cardinality({n \in Names : DictHas(agents, n)})

\* the table holds a Pending, a Completed and a Failed task and an agent is
\* registered
C6_Witness ==
    /\ agents # <<>>
    /\ \E i, j, k \in 1..Len(tasks) :
           /\ Task(i).status = PENDING
           /\ Task(j).status = COMPLETED
           /\ Task(k).status = FAILED

\* C7: execute_workflow on steps whose agents are all registered and whose
\* handles all return gives back one result per step, the i-th being what
\* step i's handle returned for step i's description, creates one task per
\* step and leaves each of them Completed with that result.
C7_WorkflowResultsInOrder ==
    [][LET steps == last'.args[1]
           n     == Len(steps)
       IN  (/\ last'.op = "execute_workflow"
            /\ \A i \in 1..n : DictHas(agents, steps[i].agent_name)
            /\ \A i \in 1..Len(last'.invoked) : last'.invoked[i].ok)
           => /\ last'.raised = NoError
              /\ Len(last'.ret) = n
              /\ Len(last'.created) = n
              /\ Len(tasks') = Len(tasks) + n
              /\ task_counter' = task_counter + n
              /\ \A i \in 1..n :
                     LET result == HandleResult(
                                       DictGet(agents, steps[i].agent_name),
                                       steps[i].description)
                         task   == DictGet(tasks', last'.created[i])
                     IN  /\ last'.ret[i] = result
                         /\ ~DictHas(tasks, last'.created[i])
                         /\ task.agent_name = steps[i].agent_name
                         /\ task.description = steps[i].description
                         /\ task.status = COMPLETED
                         /\ task.result = result
                         /\ task.error = None]_vars

\* a workflow of three steps has returned three results, not all the same
C7_Witness ==
    /\ last.op = "execute_workflow"
    /\ last.raised = NoError
    /\ Len(last.ret) = 3
    /\ last.ret[1] # last.ret[2]
    /\ last.ret[2] # last.ret[3]

\* C8: when the handle of step k raises, execute_workflow raises and returns
\* no list, the tasks of steps 1..k-1 are Completed, the task of step k is
\* Failed, and the table and the counter have grown by exactly k.
C8_WorkflowStopsAtFailure ==
    [][LET steps == last'.args[1]
           k     == Len(last'.invoked)
       IN  (/\ last'.op = "execute_workflow"
            /\ k > 0
            /\ ~last'.invoked[k].ok)
           => /\ last'.raised = RuntimeError
              /\ last'.ret = None
              /\ Len(last'.created) = k
              /\ Len(tasks') = Len(tasks) + k
              /\ task_counter' = task_counter + k
              /\ \A i \in 1..k :
                     LET task == DictGet(tasks', last'.created[i])
                     IN  /\ ~DictHas(tasks, last'.created[i])
                         /\ task.agent_name = steps[i].agent_name
                         /\ task.description = steps[i].description
                         /\ task.status = IF i < k THEN COMPLETED ELSE FAILED
              /\ \A i \in 1..(k - 1) : last'.invoked[i].ok]_vars

\* step 2 of a workflow of three steps has failed
C8_Witness ==
    /\ last.op = "execute_workflow"
    /\ last.raised = RuntimeError
    /\ Len(last.args[1]) = 3
    /\ Len(last.invoked) = 2
    /\ ~last.invoked[2].ok
    /\ Len(tasks) = 2

\* C9: reset empties the task table, sets the counter to 0 and leaves the
\* registry alone, so that the create_task after it returns the identifier
\* the first create_task on a new coordinator returns.
C9_ResetRestoresCounter ==
    [][/\ last'.op = "reset"
          => /\ tasks' = NewCoordinator.tasks
             /\ task_counter' = NewCoordinator.task_counter
             /\ agents' = agents
       /\ (last.op = "reset" /\ last'.op = "create_task"
           /\ last'.raised = NoError)
          => last'.ret = create_task(
                             [NewCoordinator EXCEPT !.agents = agents],
                             last'.args[1], last'.args[2]).ret]_vars

\* reset has just run on a coordinator with agents that had created tasks
C9_Witness ==
    /\ last.op = "reset"
    /\ agents # <<>>
    /\ everIssued # {}
    /\ tasks = <<>>

\* C10: when the handle raises during execute_task the task is Failed with
\* error "Task execution failed: " followed by the handle's message, the
\* call raises RuntimeError with that same message, the handle was invoked
\* once, and the other tasks, the registry and the counter are unchanged.
C10_HandleFailure ==
    [][(/\ last'.op = "execute_task"
        /\ last'.invoked # <<>>
        /\ ~last'.invoked[1].ok)
       => LET id   == last'.args[1]
              task == DictGet(tasks', id)
              msg  == <<"Task execution failed: ", last'.invoked[1].msg>>
          IN  /\ Len(last'.invoked) = 1
              /\ last'.invoked[1].handle
                     = DictGet(agents, DictGet(tasks, id).agent_name)
              /\ task.status = FAILED
              /\ task.error = msg
              /\ last'.raised = RuntimeError
              /\ last'.msg = msg
              /\ last'.ret = None
              /\ DictKeys(tasks') = DictKeys(tasks)
              /\ \A i \in 1..Len(tasks) :
                     tasks[i][1] # id => tasks'[i] = tasks[i]
              /\ agents' = agents
              /\ task_counter' = task_counter]_vars

\* a handle has just raised in execute_task while the table holds another
\* task
C10_Witness ==
    /\ last.op = "execute_task"
    /\ last.raised = RuntimeError
    /\ last.invoked # <<>>
    /\ Len(tasks) >= 2

\* the name of the agent the task with identifier id was created for
AgentOf(id) == DictGet(tasks, id).agent_name

\* C11: execute_task on a task whose agent is no longer registered returns
\* no result and invokes no handle, and the error it raises is of another
\* kind than the RuntimeError raised when a handle fails.
C11_AgentUnavailableDistinct ==
    [][(/\ last'.op = "execute_task"
        /\ DictHas(tasks, last'.args[1])
        /\ ~DictHas(agents, AgentOf(last'.args[1])))
       => /\ last'.ret = None
          /\ last'.invoked = <<>>
          /\ last'.raised \notin {NoError, RuntimeError}]_vars

\* the handle registered under name n in registry r, None when there is none
Lookup(r, n) == IF DictHas(r, n) THEN DictGet(r, n) ELSE None

\* C12: the registry maps each name to the handle of the latest
\* register_agent for it that no unregister_agent followed, and
\* execute_task invokes the handle the registry holds for the task's agent
\* when the call is made.
C12_LastWriteWins ==
    [][/\ last'.op = "register_agent"
          => /\ Lookup(agents', last'.args[1]) = last'.args[2]
             /\ \A n \in Names \ {last'.args[1]} :
                    Lookup(agents', n) = Lookup(agents, n)
       /\ last'.op = "unregister_agent"
          => /\ Lookup(agents', last'.args[1]) = None
             /\ \A n \in Names \ {last'.args[1]} :
                    Lookup(agents', n) = Lookup(agents, n)
       /\ last'.op \notin {"register_agent", "unregister_agent"}
          => \A n \in Names : Lookup(agents', n) = Lookup(agents, n)
       /\ (last'.op = "execute_task" /\ last'.invoked # <<>>)
          => \A k \in 1..Len(last'.invoked) :
                 last'.invoked[k].handle
                     = Lookup(agents, AgentOf(last'.args[1]))]_vars

\* execute_task has just invoked h2 for a task that h1 completed earlier:
\* the name was registered again between the two runs
C12_Witness ==
    /\ last.op = "execute_task"
    /\ last.invoked # <<>>
    /\ last.invoked[1].handle = "h2"
    /\ ~last.invoked[1].ok
    /\ DictGet(tasks, last.args[1]).result
           = HandleResult("h1", DictGet(tasks, last.args[1]).description)

\* C13: register_agent and unregister_agent leave the task table and the
\* counter as they are and raise nothing, and unregister_agent of a name
\* that is not registered leaves the registry as it is too.
C13_RegistryOnly ==
    [][/\ last'.op \in {"register_agent", "unregister_agent"}
          => /\ tasks' = tasks
             /\ task_counter' = task_counter
             /\ last'.raised = NoError
       /\ (last'.op = "unregister_agent"
           /\ ~DictHas(agents, last'.args[1]))
          => agents' = agents]_vars

\* unregister_agent has just run while the table holds a task created for
\* the name it was given
C13_Witness ==
    /\ last.op = "unregister_agent"
    /\ last.raised = NoError
    /\ \E i \in 1..Len(tasks) : Task(i).agent_name = last.args[1]

\* C14: execute_task with an identifier that is not in the table raises
\* ValueError, invokes no handle and leaves the table, the registry and
\* the counter unchanged.
C14_UnknownTask ==
    [][(last'.op = "execute_task" /\ ~DictHas(tasks, last'.args[1]))
       => /\ last'.raised = ValueError
          /\ last'.msg = <<"Task '", last'.args[1], "' not found">>
          /\ last'.ret = None
          /\ last'.invoked = <<>>
          /\ tasks' = tasks
          /\ agents' = agents
          /\ task_counter' = task_counter]_vars

\* execute_task has just been refused for an identifier that is absent
\* from a table that holds other tasks
C14_Witness ==
    /\ last.op = "execute_task"
    /\ last.raised = ValueError
    /\ ~DictHas(tasks, last.args[1])
    /\ tasks # <<>>
    /\ agents # <<>>

\* C15: get_task_status raises ValueError exactly when the identifier is
\* absent from the table; otherwise it returns a record whose task_id,
\* agent_name, description, status, result and error are those of the
\* stored task; either way the table, the registry and the counter are
\* unchanged.
C15_StatusIsARead ==
    [][last'.op = "get_task_status"
       => LET id == last'.args[1]
          IN  /\ last'.raised = ValueError <=> ~DictHas(tasks, id)
              /\ last'.raised \in {ValueError, NoError}
              /\ DictHas(tasks, id)
                 => LET task == DictGet(tasks, id)
                    IN  /\ last'.ret.task_id = id
                        /\ last'.ret.task_id = task.task_id
                        /\ last'.ret.agent_name = task.agent_name
                        /\ last'.ret.description = task.description
                        /\ last'.ret.status = task.status
                        /\ last'.ret.result = task.result
                        /\ last'.ret.error = task.error
              /\ tasks' = tasks
              /\ agents' = agents
              /\ task_counter' = task_counter]_vars

\* get_task_status has just returned the record of a Failed task
C15_Witness ==
    /\ last.op = "get_task_status"
    /\ last.raised = NoError
    /\ last.ret.status = FAILED
    /\ last.ret.error # None

\* C16: get_pending_tasks(a) returns exactly the tasks of the table that
\* are Pending and were created for agent name a, for every name a, the
\* empty string included, and get_pending_tasks() returns exactly the
\* Pending tasks.  (The call changes nothing, so the table it answered
\* from is the table of the state it leaves.)
C16_PendingByAgent ==
    last.op = "get_pending_tasks"
    => LET agent_name == last.args[1]
           stored     == SeqToSet(DictValues(tasks))
       IN  SeqToSet(last.ret)
             = IF agent_name = None
               THEN {task \in stored : task.status = PENDING}
               ELSE {task \in stored :
                         /\ task.status = PENDING
                         /\ task.agent_name = agent_name[1]}

\* the client create_issue ran on is unconfigured: PyGithub is missing, or
\* it has no token, or it has no repository name
Unconfigured ==
    \/ ~GITHUB_AVAILABLE
    \/ ~Truthy(DictGet(github_client, "token"))
    \/ ~Truthy(DictGet(github_client, "repo_name"))

\* C17: whenever the client is unconfigured, create_issue returns without
\* raising a record of number, url, title and state whose title is the
\* title it was given.
C17_UnconfiguredPlaceholder ==
    (github_last.op = "create_issue" /\ Unconfigured)
    => /\ github_last.raised = NoError
       /\ github_last.ret # None
       /\ DOMAIN github_last.ret = {"number", "url", "title", "state"}
       /\ github_last.ret.title = github_last.args[1]

\* what read_file and list_files answer under agent name b in file system fs
SameView(fs1, fs2, b) ==
    /\ \A f \in Filenames :
           LET r1 == read_file(fs1, b, f)
               r2 == read_file(fs2, b, f)
           IN  /\ r1.raised = r2.raised
               /\ r1.raised = NoError => r1.ret = r2.ret
    /\ list_files(fs1, b).ret = list_files(fs2, b).ret

\* C18: a write_file, delete_file or clear_workspace under one agent name
\* never changes what read_file and list_files answer under another agent
\* name.
C18_WorkspacesIsolated ==
    [][workspace_last'.op \in {"write_file", "delete_file", "clear_workspace"}
       => \A b \in WorkspaceNames \ {workspace_last'.args[1]} :
              SameView(Fs, Fs', b)]_vars

\* the number of tasks in the table that are InProgress
InProgressCount ==
    Cardinality({k \in 1..Len(tasks) : Task(k).status = IN_PROGRESS})

\* the entries to agent.execute made so far, oldest first
Invocations == SelectSeq(history, LAMBDA e : e.step = "ex_invoke")

\* C19: execute_workflow runs its steps strictly in sequence: the task of
\* step N is put in the table only when the task of step N-1 is Completed,
\* at most one task is InProgress at any moment, and the handles are
\* entered in step order, the k-th entry being for step k.
C19_StrictSequence ==
    [][/\ InProgressCount' <= 1
       /\ \A k \in 1..Len(Invocations') : Invocations'[k].i = k
       /\ \A t \in Callers :
              (/\ frames[t].op = "execute_workflow"
               /\ frames[t].pc = "ct_insert"
               /\ frames'[t].pc # "ct_insert"
               /\ frames[t].i > 1)
              => DictGet(tasks, frames[t].created[frames[t].i - 1]).status
                     = COMPLETED]_vars

\* a workflow of two steps has returned its two results
C19_Witness ==
    /\ frames["t1"].op = "execute_workflow"
    /\ frames["t1"].pc = "done"
    /\ frames["t1"].raised = NoError
    /\ Len(frames["t1"].ret) = 2
    /\ Len(Invocations) = 2

\* the place in history of the step called name that caller t took
Position(t, name) ==
    CHOOSE k \in 1..Len(history) :
        history[k].caller = t /\ history[k].step = name

\* the counter increments made before caller t formatted its identifier
IncrementsBefore(t) ==
    Cardinality({k \in 1..Position(t, "ct_format") :
                     history[k].step = "ct_increment"})

\* both callers' create_task calls have returned an identifier
BothReturned ==
    \A t \in Callers :
        /\ frames[t].op = "create_task"
        /\ frames[t].pc = "done"
        /\ frames[t].raised = NoError

\* the caller whose table insert came last
LastInserter ==
    CHOOSE t \in Callers :
        \A u \in Callers : Position(u, "ct_insert") <= Position(t, "ct_insert")

\* C20: two interleaved create_task calls are not safe.  Each call returns
\* the identifier formatted from the counter as it stands when the call
\* formats it, so two calls that both increment before either formats
\* return the same identifier; the table then holds one task under it, the
\* one inserted last, and the other created task is lost.  C20_Witness is
\* such a state.
C20_DuplicateIdOverwrites ==
    BothReturned
    => /\ \A t \in Callers : frames[t].ret = TaskId(IncrementsBefore(t))
       /\ frames["t1"].ret = frames["t2"].ret
          => /\ DictKeys(tasks) = <<frames["t1"].ret>>
             /\ Task(1) = AgentTask(frames["t1"].ret,
                                    frames[LastInserter].agent_name,
                                    frames[LastInserter].description)
       /\ frames["t1"].ret # frames["t2"].ret => Len(tasks) = 2

\* both calls have returned the same identifier and the table holds one
\* task, though the calls were for different agents and descriptions
C20_Witness ==
    /\ BothReturned
    /\ frames["t1"].ret = frames["t2"].ret
    /\ frames["t1"].agent_name # frames["t2"].agent_name
    /\ frames["t1"].description # frames["t2"].description
    /\ Len(tasks) = 1
    /\ task_counter = 2

\* both callers' execute_task calls on the one task of the table have
\* ended, each after entering the handle
BothExecuted ==
    /\ tasks # <<>>
    /\ \A t \in Callers :
           /\ frames[t].op = "execute_task"
           /\ frames[t].pc = "done"
           /\ frames[t].task_id = tasks[1][1]
           /\ frames[t].agent # None

\* the place in history of caller t's mark_completed or mark_failed
MarkPosition(t) ==
    CHOOSE k \in 1..Len(history) :
        /\ history[k].caller = t
        /\ history[k].step \in {"ex_mark_completed", "ex_mark_failed"}

\* the caller whose mark_completed or mark_failed came last
LastMarker ==
    CHOOSE t \in Callers :
        \A u \in Callers : MarkPosition(u) <= MarkPosition(t)

\* C21: two interleaved execute_task calls on one task both run: the handle
\* is entered twice, each caller that did not get an exception gets the
\* handle's result, and the task is left with the status of whichever call
\* marked it last while keeping the result of a call that succeeded and
\* the error of a call that failed.  So with one success and one failure
\* the task ends Failed though a caller received a result, or Completed
\* while carrying an error.  C21_Witness is the first of these states.
C21_ConcurrentExecution ==
    BothExecuted
    => LET task == Task(1)
       IN  /\ Len(Invocations) = 2
           /\ \A t \in Callers :
                  /\ frames[t].raised \in {NoError, RuntimeError}
                  /\ frames[t].raised = NoError
                     => /\ frames[t].ret = HandleResult(frames[t].agent[1],
                                                        task.description)
                        /\ task.result = frames[t].ret
                  /\ frames[t].raised = RuntimeError
                     => /\ frames[t].ret = None
                        /\ task.error # None
           /\ task.status = IF frames[LastMarker].raised = NoError
                            THEN COMPLETED ELSE FAILED

\* caller t1 has received the handle's result and the task is Failed, with
\* both its result and its error set
C21_Witness ==
    /\ BothExecuted
    /\ frames["t1"].raised = NoError
    /\ frames["t1"].ret # None
    /\ frames["t2"].raised = RuntimeError
    /\ Task(1).status = FAILED
    /\ Task(1).result = frames["t1"].ret
    /\ Task(1).error = frames["t2"].msg

\* C22: between coordinator calls no task is InProgress: every execute_task
\* on a task of the table leaves it Completed when it returns and Failed
\* when it raises, also when the agent lookup fails, so no task of the
\* table is InProgress and get_workflow_summary counts 0 in_progress.
C22_NeverInProgress ==
    /\ \A i \in 1..Len(tasks) : Task(i).status # IN_PROGRESS
    /\ get_workflow_summary(Self).status_counts.in_progress = 0
    /\ (last.op = "execute_task" /\ DictHas(tasks, last.args[1]))
       => DictGet(tasks, last.args[1]).status
              = IF last.raised = NoError THEN COMPLETED ELSE FAILED

\* execute_task has just raised for a task whose agent is not registered,
\* without entering a handle, and the task is Failed
C22_Witness ==
    /\ last.op = "execute_task"
    /\ DictHas(tasks, last.args[1])
    /\ ~DictHas(agents, AgentOf(last.args[1]))
    /\ last.raised # NoError
    /\ last.invoked = <<>>
    /\ DictGet(tasks, last.args[1]).status = FAILED

====
